---- MODULE Spec2Model ----
(***************************************************************************)
(* Model of the tennis training session analyzer                          *)
(* (src/TennisPulse/Analytics/tennis_analyzer.cpp).                       *)
(*                                                                         *)
(* A C++ double is modelled as an extended rational <<n, d>>:              *)
(*   d > 0  : the finite value n/d, in lowest terms;                       *)
(*   <<1,0>>, <<-1,0>> : +infinity and -infinity;   <<0,0>> : NaN.         *)
(* A double keeps a significand of 53 bits; the model keeps PrecBits bits   *)
(* of a value of 2^PrecBits or more (rounding to nearest, ties to even, as *)
(* IEEE 754 does) and a denominator of at most Grid below that, so that a  *)
(* result the format cannot represent is rounded as a double rounds it.    *)
(* Signed zero is not modelled.                                            *)
(***************************************************************************)
EXTENDS Integers, Sequences, FiniteSets, TLC

\* ------------------------------------------------------------------ bounds
MaxLen == 2          \* longest durations / intensities sequence
MaxRestLen == 3      \* longest restDurations sequence
NumThreads == 2      \* concurrent callers in SpecConc

\* denominator kept by a rounded double
Grid == 10000
\* significand bits kept by a rounded double
PrecBits == 12

\* ------------------------------------------------------- double arithmetic
NaN    == <<0, 0>>
PosInf == <<1, 0>>
NegInf == <<-1, 0>>
Zero   == <<0, 1>>
One    == <<1, 1>>

IsNaN(x)    == x = NaN
IsFinite(x) == x[2] # 0

AbsInt(i) == IF i < 0 THEN -i ELSE i
SignInt(i) == IF i < 0 THEN -1 ELSE IF i > 0 THEN 1 ELSE 0

RECURSIVE Gcd(_, _)
Gcd(a, b) == IF b = 0 THEN a ELSE Gcd(b, a % b)

\* n/d with d > 0, reduced to lowest terms
Norm(n, d) == LET g == Gcd(AbsInt(n), d) IN <<n \div g, d \div g>>

\* the unit in the last place of a double with integer part q
RECURSIVE Ulp(_)
Ulp(q) == IF q < 2^PrecBits THEN 1 ELSE 2 * Ulp(q \div 2)

\* q + f, where 0 <= f < 1 and fracPos tells f > 0, rounded to the nearest
\* multiple of u, a tie going to the even multiple
NearestEven(q, fracPos, u) ==
    IF 2 * (q % u) > u \/ (2 * (q % u) = u /\ fracPos) THEN q - (q % u) + u
    ELSE IF 2 * (q % u) = u /\ (q \div u) % 2 = 1 THEN q - (q % u) + u
    ELSE q - (q % u)

\* rounding of a finite result to the precision a double of the model keeps
RoundReduced(r) ==
    IF AbsInt(r[1]) \div r[2] >= 2^PrecBits
    THEN <<SignInt(r[1]) * NearestEven(AbsInt(r[1]) \div r[2],
                                       AbsInt(r[1]) % r[2] # 0,
                                       Ulp(AbsInt(r[1]) \div r[2])), 1>>
    ELSE IF r[2] <= Grid THEN r
    ELSE Norm(r[1] \div ((r[2] \div Grid) + 1), r[2] \div ((r[2] \div Grid) + 1))

Round(n, d) == RoundReduced(Norm(n, d))

FromInt(i) == <<i, 1>>

Neg(x) == <<-x[1], x[2]>>

\* double + double
Add(x, y) ==
    IF IsNaN(x) \/ IsNaN(y) THEN NaN
    ELSE IF ~IsFinite(x) THEN (IF ~IsFinite(y) /\ y # x THEN NaN ELSE x)
    ELSE IF ~IsFinite(y) THEN y
    ELSE LET g == Gcd(x[2], y[2])
             l == (x[2] \div g) * y[2]
         IN  Round(x[1] * (l \div x[2]) + y[1] * (l \div y[2]), l)

\* double - double
Sub(x, y) == Add(x, Neg(y))

\* double * double
Mul(x, y) ==
    IF IsNaN(x) \/ IsNaN(y) THEN NaN
    ELSE IF ~IsFinite(x) \/ ~IsFinite(y)
         THEN (IF x[1] = 0 \/ y[1] = 0 THEN NaN
               ELSE <<SignInt(x[1]) * SignInt(y[1]), 0>>)
    ELSE LET g1 == Gcd(AbsInt(x[1]), y[2])
             g2 == Gcd(AbsInt(y[1]), x[2])
         IN  Round((x[1] \div g1) * (y[1] \div g2),
                   (x[2] \div g2) * (y[2] \div g1))

\* double / double (IEEE: x/0 is an infinity, 0/0 and inf/inf are NaN)
Div(x, y) ==
    IF IsNaN(x) \/ IsNaN(y) THEN NaN
    ELSE IF ~IsFinite(y) THEN (IF ~IsFinite(x) THEN NaN ELSE Zero)
    ELSE IF y[1] = 0
         THEN (IF x[1] = 0 THEN NaN ELSE <<SignInt(x[1]), 0>>)
    ELSE IF ~IsFinite(x) THEN <<SignInt(x[1]) * SignInt(y[1]), 0>>
    ELSE Mul(x, <<SignInt(y[1]) * y[2], AbsInt(y[1])>>)

\* a/b < c/d for b, d > 0, by continued fractions (no products)
RECURSIVE LtFin(_, _, _, _)
LtFin(a, b, c, d) ==
    LET qa == a \div b
        qc == c \div d
        ra == a % b
        rc == c % d
    IN  IF qa # qc THEN qa < qc
        ELSE IF rc = 0 THEN FALSE
        ELSE IF ra = 0 THEN TRUE
        ELSE LtFin(d, rc, b, ra)

\* double < double (every comparison with NaN is false)
Lt(x, y) ==
    IF IsNaN(x) \/ IsNaN(y) THEN FALSE
    ELSE IF x = y THEN FALSE
    ELSE IF x = NegInf \/ y = PosInf THEN TRUE
    ELSE IF x = PosInf \/ y = NegInf THEN FALSE
    ELSE LtFin(x[1], x[2], y[1], y[2])

Gt(x, y) == Lt(y, x)
Le(x, y) == Lt(x, y) \/ (x = y /\ ~IsNaN(x))

\* std::min(a, b) is (b < a) ? b : a;  std::max(a, b) is (a < b) ? b : a
StdMin(a, b) == IF Lt(b, a) THEN b ELSE a
StdMax(a, b) == IF Lt(a, b) THEN b ELSE a

\* std::abs
StdAbs(x) == <<AbsInt(x[1]), x[2]>>

\* largest r in lo..hi-1 with r*r <= x, given lo*lo <= x < hi*hi
RECURSIVE ISqrtIn(_, _, _)
ISqrtIn(x, lo, hi) ==
    IF hi - lo <= 1 THEN lo
    ELSE LET mid == (lo + hi) \div 2 IN
         IF mid * mid <= x THEN ISqrtIn(x, mid, hi) ELSE ISqrtIn(x, lo, mid)

ISqrt(x) == ISqrtIn(x, 0, 46341)

\* std::sqrt: exact on squares of rationals, otherwise rounded down to the
\* precision the magnitude leaves room for
StdSqrt(x) ==
    IF IsNaN(x) \/ x[1] < 0 THEN NaN
    ELSE IF x = PosInf THEN PosInf
    ELSE LET rn == ISqrt(x[1])
             rd == ISqrt(x[2])
             q  == x[1] \div x[2]
             m  == x[1] % x[2]
             k  == IF q < 2000 THEN 1000 ELSE IF q < 20000000 THEN 10 ELSE 1
         IN  IF rn * rn = x[1] /\ rd * rd = x[2] THEN <<rn, rd>>
             ELSE Round(ISqrt(q * k * k + (((m * k) \div x[2]) * k)), k)

\* ------------------------------------------------------ program constants
MIN_DURATION  == 0
MAX_DURATION  == 86400
MIN_INTENSITY == 1
MAX_INTENSITY == 5
EPSILON       == <<1, 1000000000>>

\* reference ceiling of one hour per set (local const maxDuration)
maxDuration   == 3600
\* avgDuration thresholds of the duration component
ShortSet      == 30
LongSet       == 1800

\* the weights 0.6 / 0.4 and 0.4 / 0.4 / 0.2
W06 == <<3, 5>>
W04 == <<2, 5>>
W02 == <<1, 5>>

\* ------------------------------------------------------------------ errors
NoError == [type |-> "none", what |-> "none", index |-> -1]
SizeMismatch(w) == [type |-> "SizeMismatchError", what |-> w, index |-> -1]
\* i is the index as the message prints it (0-based)
RangeErr(w, i) == [type |-> "RangeError", what |-> w, index |-> i]

\* ----------------------------------------------------------------- helpers
\* a vector of integral values as a vector of doubles
ToDoubles(s) == [k \in DOMAIN s |-> FromInt(s[k])]

\* std::accumulate(begin, end, 0.0) over doubles
RECURSIVE AccumulateFrom(_, _, _)
AccumulateFrom(values, k, acc) ==
    IF k > Len(values) THEN acc
    ELSE AccumulateFrom(values, k + 1, Add(acc, values[k]))

Accumulate(values) == AccumulateFrom(values, 1, Zero)

mean(values) ==
    IF values = <<>> THEN Zero
    ELSE Div(Accumulate(values), FromInt(Len(values)))

\* diff * diff
Square(diff) == Mul(diff, diff)

RECURSIVE SumSquaredDiffFrom(_, _, _, _)
SumSquaredDiffFrom(values, meanValue, k, acc) ==
    IF k > Len(values) THEN acc
    ELSE SumSquaredDiffFrom(values, meanValue, k + 1,
                            Add(acc, Square(Sub(values[k], meanValue))))

standardDeviation(values) ==
    IF Len(values) < 2 THEN Zero
    ELSE LET meanValue      == mean(values)
             sumSquaredDiff == SumSquaredDiffFrom(values, meanValue, 1, Zero)
             variance       == Div(sumSquaredDiff, FromInt(Len(values) - 1))
         IN  StdSqrt(variance)

\* coefficientOfVariation once meanValue is known
CvWithMean(values, meanValue) ==
    IF Lt(StdAbs(meanValue), EPSILON) THEN Zero
    ELSE Div(standardDeviation(values), meanValue)

coefficientOfVariation(values) ==
    IF values = <<>> THEN Zero ELSE CvWithMean(values, mean(values))

\* intensity - MIN_INTENSITY is computed in int, so 0 gives -1/4
normalizeIntensity(intensity) ==
    Div(FromInt(intensity - MIN_INTENSITY),
        FromInt(MAX_INTENSITY - MIN_INTENSITY))

\* the loop keeps going after a hit and reports the last offending index
LastOutside(s, lo, hi) ==
    LET bad == {k \in DOMAIN s : s[k] < lo \/ s[k] > hi} IN
    IF bad = {} THEN 0 ELSE CHOOSE k \in bad : \A j \in bad : k >= j

\* smallest index (1-based) of a value outside [lo, hi], 0 if there is none
FirstOutside(s, lo, hi) ==
    LET bad == {k \in DOMAIN s : s[k] < lo \/ s[k] > hi} IN
    IF bad = {} THEN 0 ELSE CHOOSE k \in bad : \A j \in bad : k <= j

\* ------------------------------------------------------------ validateInputs
\* validateInputs with the range loops ahead of the size check
validateInputsRangeFirst(durations, intensities) ==
    LET di == FirstOutside(durations, MIN_DURATION, MAX_DURATION)
        ii == FirstOutside(intensities, MIN_INTENSITY, MAX_INTENSITY)
    IN  IF di # 0 THEN RangeErr("Duration", di - 1)
        ELSE IF ii # 0 THEN RangeErr("Intensity", ii - 1)
        ELSE IF Len(durations) # Len(intensities)
        THEN SizeMismatch("durations/intensities")
        ELSE NoError

validateInputs(durations, intensities) ==
    IF Len(durations) # Len(intensities)
    THEN SizeMismatch("durations/intensities")
    ELSE LET di == FirstOutside(durations, MIN_DURATION, MAX_DURATION)
             ii == FirstOutside(intensities, MIN_INTENSITY, MAX_INTENSITY)
         IN  IF di # 0 THEN RangeErr("Duration", di - 1)
             ELSE IF ii # 0 THEN RangeErr("Intensity", ii - 1)
             ELSE NoError

\* ------------------------------------------------- calculateTotalActiveTime
calculateTotalActiveTime(durations) ==
    IF durations = <<>> THEN Zero ELSE Accumulate(ToDoubles(durations))

\* --------------------------------------------------- calculateWorkRestRatio
\* a call either returns a double or throws: [err, val]
Returns(v) == [err |-> NoError, val |-> v]
Throws(e)  == [err |-> e, val |-> Zero]

\* restDurations.size() != expectedSize && restDurations.size() != gapSize
\* with only one rest value per set accepted
BadRestSizeNoGaps(durations, restDurations) ==
    Len(restDurations) # Len(durations)

\* restDurations.size() != expectedSize && restDurations.size() != gapSize
BadRestSize(durations, restDurations) ==
    LET expectedSize == Len(durations)
        gapSize      == IF Len(durations) > 1 THEN Len(durations) - 1 ELSE 0
    IN  Len(restDurations) # expectedSize /\ Len(restDurations) # gapSize

\* totalRest with the default branch left out: 0.0 when no rest is given
TotalRestNoDefault(totalWork, restDurations) ==
    IF restDurations = <<>> THEN Zero
    ELSE Accumulate(ToDoubles(restDurations))

\* totalRest: the work itself when no rest is given, else the sum given
TotalRest(totalWork, restDurations) ==
    IF restDurations = <<>> THEN totalWork
    ELSE Accumulate(ToDoubles(restDurations))

\* the final division without the guard on totalRest
WorkOverRestNoGuard(totalWork, totalRest) == Div(totalWork, totalRest)

\* the guard on totalRest and the final division
WorkOverRest(totalWork, totalRest) ==
    IF Lt(totalRest, EPSILON) THEN PosInf ELSE Div(totalWork, totalRest)

calculateWorkRestRatio(durations, restDurations) ==
    IF durations = <<>> THEN Returns(Zero)
    ELSE IF restDurations # <<>> /\ BadRestSize(durations, restDurations)
    THEN Throws(SizeMismatch("restDurations"))
    ELSE Returns(WorkOverRest(calculateTotalActiveTime(durations),
                              TotalRest(calculateTotalActiveTime(durations),
                                        restDurations)))

\* ------------------------------------------------ calculateConsistencyScore
calculateConsistencyScore(durations, intensities) ==
    IF Len(durations) < 2 THEN One
    ELSE LET durationCV           == coefficientOfVariation(ToDoubles(durations))
             durationConsistency  == Div(One, Add(One, durationCV))
             intensityDoubles     == ToDoubles(intensities)
             intensityCV          == coefficientOfVariation(intensityDoubles)
             intensityConsistency == Div(One, Add(One, intensityCV))
             consistency          == Add(Mul(W06, durationConsistency),
                                         Mul(W04, intensityConsistency))
         IN  StdMax(Zero, StdMin(One, consistency))

\* -------------------------------------------- calculateTrainingDensityScore
RECURSIVE NormIntensitySumFrom(_, _, _)
NormIntensitySumFrom(intensities, k, acc) ==
    IF k > Len(intensities) THEN acc
    ELSE NormIntensitySumFrom(intensities, k + 1,
                              Add(acc, normalizeIntensity(intensities[k])))

\* the loop reads intensities[i] for i < durations.size(): past the end of a
\* shorter intensities vector the read is out of bounds and yields oob
RECURSIVE NormVolumeFrom(_, _, _, _, _)
NormVolumeFrom(durations, intensities, oob, k, acc) ==
    IF k > Len(durations) THEN acc
    ELSE LET intensity == IF k <= Len(intensities) THEN intensities[k] ELSE oob
         IN  NormVolumeFrom(durations, intensities, oob, k + 1,
                 Add(acc, Mul(FromInt(durations[k]),
                              normalizeIntensity(intensity))))

\* durationComponent: very short and very long sets reduce density
DurationComponent(avgDuration) ==
    IF Lt(avgDuration, FromInt(ShortSet))
    THEN Div(avgDuration, FromInt(ShortSet))
    ELSE IF Gt(avgDuration, FromInt(LongSet))
    THEN Div(FromInt(LongSet), avgDuration)
    ELSE One

\* the combination without saturation of the volume component and of the
\* density
DensityScoreUnclamped(avgIntensity, volumeRaw, durationComponent) ==
    Add(Add(Mul(W04, avgIntensity), Mul(W04, volumeRaw)),
        Mul(W02, durationComponent))

\* volumeComponent = min(1.0, volumeRaw), the weighted sum and its clamp
DensityScore(avgIntensity, volumeRaw, durationComponent) ==
    StdMax(Zero,
        StdMin(One,
            Add(Add(Mul(W04, avgIntensity), Mul(W04, StdMin(One, volumeRaw))),
                Mul(W02, durationComponent))))

calculateTrainingDensityScore(durations, intensities, oob) ==
    IF durations = <<>> THEN Zero
    ELSE DensityScore(
            Div(NormIntensitySumFrom(intensities, 1, Zero),
                FromInt(Len(intensities))),
            Div(NormVolumeFrom(durations, intensities, oob, 1, Zero),
                FromInt(maxDuration * Len(durations))),
            DurationComponent(mean(ToDoubles(durations))))

\* ------------------------------------------------------------------ analyze
Metrics == {"totalActiveTime", "workRestRatio", "consistencyScore",
            "trainingDensityScore", "totalSets", "averageIntensity",
            "totalWorkVolume"}

\* AnalysisResult; the local `result` of analyze before any field is assigned
BlankResult == [totalActiveTime |-> Zero, workRestRatio |-> Zero,
                consistencyScore |-> Zero, trainingDensityScore |-> Zero,
                averageIntensity |-> Zero, totalWorkVolume |-> Zero,
                totalSets |-> 0]

\* intensitySum / intensities.size()
AverageIntensity(intensities) ==
    Div(Accumulate(ToDoubles(intensities)), FromInt(Len(intensities)))

\* result.totalWorkVolume += durations[i] * intensities[i]
RECURSIVE WorkVolumeFrom(_, _, _, _)
WorkVolumeFrom(durations, intensities, k, acc) ==
    IF k > Len(durations) THEN acc
    ELSE WorkVolumeFrom(durations, intensities, k + 1,
             Add(acc, Mul(FromInt(durations[k]), FromInt(intensities[k]))))

\* the work volume weighted by the normalized intensity, as the density
\* score weights it
WorkVolumeNormalized(durations, intensities) ==
    NormVolumeFrom(durations, intensities, 0, 1, Zero)

WorkVolume(durations, intensities) ==
    WorkVolumeFrom(durations, intensities, 1, Zero)

\* what a statement of analyze leaves: the next position, the local result,
\* the error thrown (if any) and the metric it assigned
Thrown(e, res) == [pc |-> "thrown", result |-> res, err |-> e, metric |-> "none"]
Goes(p, res, m) == [pc |-> p, result |-> res, err |-> NoError, metric |-> m]

\* validateInputs(durations, intensities) gave e
AfterValidate(e, res) ==
    IF e # NoError THEN Thrown(e, res) ELSE Goes("totalActiveTime", res, "none")

\* calculateWorkRestRatio(durations, restDurations) gave o
AfterWorkRestRatio(o, res) ==
    IF o.err # NoError THEN Thrown(o.err, res)
    ELSE Goes("consistencyScore", [res EXCEPT !.workRestRatio = o.val],
              "workRestRatio")

\* the statement of analyze at position p
AnalyzeStep(p, d, i, r, res) ==
    CASE p = "validate" -> AfterValidate(validateInputs(d, i), res)
      [] p = "totalActiveTime" ->
           Goes("workRestRatio",
                [res EXCEPT !.totalActiveTime = calculateTotalActiveTime(d)],
                "totalActiveTime")
      [] p = "workRestRatio" ->
           AfterWorkRestRatio(calculateWorkRestRatio(d, r), res)
      [] p = "consistencyScore" ->
           Goes("trainingDensityScore",
                [res EXCEPT !.consistencyScore = calculateConsistencyScore(d, i)],
                "consistencyScore")
      [] p = "trainingDensityScore" ->
           Goes("totalSets",
                [res EXCEPT !.trainingDensityScore =
                                calculateTrainingDensityScore(d, i, 0)],
                "trainingDensityScore")
      [] p = "totalSets" ->
           Goes("averageIntensity", [res EXCEPT !.totalSets = Len(d)],
                "totalSets")
      [] p = "averageIntensity" ->
           Goes("totalWorkVolume",
                [res EXCEPT !.averageIntensity = AverageIntensity(i)],
                "averageIntensity")
      [] p = "totalWorkVolume" ->
           Goes("return", [res EXCEPT !.totalWorkVolume = WorkVolume(d, i)],
                "totalWorkVolume")
      [] p = "return" -> Goes("returned", res, "none")

\* --------------------------------------------------------------- the inputs
\* sample double values of a duration: below, inside and on the edges of
\* [MIN_DURATION, MAX_DURATION]
DurationValues == {-1, 0, 20, 600}
\* the upper edge and the first double beyond it; used in single-set sessions
EdgeDurations  == {MAX_DURATION, MAX_DURATION + Ulp(MAX_DURATION)}
\* three equal sets whose sum is not a double: 3 * 1367 = 4101 lies halfway
\* between the doubles 4100 and 4102
UnevenSum == 1367
EqualSets == <<UnevenSum, UnevenSum, UnevenSum>>
EqualIntensities == <<MAX_INTENSITY, MAX_INTENSITY, MAX_INTENSITY>>
\* uint8_t intensities: 0 and 6 are out of range
IntensityValues == {0, 1, 5, 6}
RestValues == {0, 600}
\* rest vectors with a negative entry, two of them summing to zero
SignedRests == {<<-600>>, <<-600, 600>>, <<600, -600>>}
\* a byte an out-of-bounds read of the intensities vector may yield
OobBytes == {0, 255}

SeqsUpTo(S, n) == UNION {[1..m -> S] : m \in 0..n}

DurationSeqs ==
    SeqsUpTo(DurationValues, MaxLen) \cup {<<v>> : v \in EdgeDurations}
        \cup {EqualSets}
IntensitySeqs == SeqsUpTo(IntensityValues, MaxLen) \cup {EqualIntensities}
\* only the length and the sum of restDurations are read: every length with
\* sum zero and with a positive sum, and the signed vectors
RestSeqs ==
    {[k \in 1..m |-> v] : m \in 0..MaxRestLen, v \in RestValues} \cup SignedRests

\* ------------------------------------------------------------------- state
VARIABLES
    durations, intensities, restDurations,  \* the caller's vectors
    op,          \* operation in progress or just finished
    pc,          \* position of the call
    result,      \* analyze's local AnalysisResult
    computed,    \* metrics analyze has assigned so far
    value,       \* double returned by a calculate* operation
    err,         \* exception thrown by the call
    cargs, cop, cpc, cresult, cret, cerr   \* concurrent callers (SpecConc)

inputs == <<durations, intensities, restDurations>>
seqvars == <<op, pc, result, computed, value, err>>
concvars == <<cargs, cop, cpc, cresult, cret, cerr>>
vars == <<durations, intensities, restDurations, op, pc, result, computed,
          value, err, cargs, cop, cpc, cresult, cret, cerr>>

Threads == 1..NumThreads

\* argument triples <<durations, intensities, restDurations>> the concurrent
\* callers pass: a valid session, a size mismatch, an out-of-range value and
\* a restDurations of unsupported length
Sessions == { << <<20, 600>>, <<1, 5>>, <<600>> >>,
              << <<20>>, <<1, 5>>, <<>> >>,
              << <<0, 20>>, <<1, 6>>, <<0, 0>> >>,
              << <<20>>, <<5>>, <<600, 600>> >> }

Operations == {"analyze", "calculateTotalActiveTime", "calculateWorkRestRatio",
               "calculateConsistencyScore", "calculateTrainingDensityScore"}

\* a `static AnalysisResult result;`: one object for every caller
ResultSlotShared(t) == 1

\* analyze's `AnalysisResult result;` is a local of the call: each caller
\* has its own
ResultSlot(t) == t

ConcIdle ==
    /\ cargs = [t \in Threads |-> << <<>>, <<>>, <<>> >>]
    /\ cop = [t \in Threads |-> "none"]
    /\ cpc = [t \in Threads |-> "idle"]
    /\ cresult = [t \in Threads |-> BlankResult]
    /\ cret = [t \in Threads |-> [result |-> BlankResult, value |-> Zero]]
    /\ cerr = [t \in Threads |-> NoError]

SeqIdle ==
    /\ op = "none"
    /\ pc = "idle"
    /\ result = BlankResult
    /\ computed = {}
    /\ value = Zero
    /\ err = NoError

\* ------------------------------------------------------ one caller (Spec)
Init ==
    /\ durations \in DurationSeqs
    /\ intensities \in IntensitySeqs
    /\ restDurations \in RestSeqs
    /\ SeqIdle
    /\ ConcIdle

\* the caller enters analyze(durations, intensities, restDurations)
CallAnalyze ==
    /\ pc = "idle"
    /\ op' = "analyze"
    /\ pc' = "validate"
    /\ UNCHANGED <<result, computed, value, err, inputs, concvars>>

\* the caller's analyze call takes the step s
Takes(s) ==
    /\ pc' = s.pc
    /\ result' = s.result
    /\ err' = s.err
    /\ computed' = IF s.metric = "none" THEN computed
                   ELSE computed \cup {s.metric}

\* the statement of analyze at position p
Statement(p) ==
    /\ op = "analyze"
    /\ pc = p
    /\ Takes(AnalyzeStep(p, durations, intensities, restDurations, result))
    /\ UNCHANGED <<op, value, inputs, concvars>>

Validate                == Statement("validate")
SetTotalActiveTime      == Statement("totalActiveTime")
SetWorkRestRatio        == Statement("workRestRatio")
SetConsistencyScore     == Statement("consistencyScore")
SetTrainingDensityScore == Statement("trainingDensityScore")
SetTotalSets            == Statement("totalSets")
SetAverageIntensity     == Statement("averageIntensity")
SetTotalWorkVolume      == Statement("totalWorkVolume")
ReturnResult            == Statement("return")

\* a direct call of a calculate* operation returning v
Direct(name, v) ==
    /\ pc = "idle"
    /\ op' = name
    /\ pc' = "returned"
    /\ value' = v
    /\ UNCHANGED <<result, computed, err, inputs, concvars>>

CallTotalActiveTime ==
    Direct("calculateTotalActiveTime", calculateTotalActiveTime(durations))

\* a direct call of calculateWorkRestRatio with the outcome o
DirectThrowing(name, o) ==
    /\ pc = "idle"
    /\ op' = name
    /\ pc' = IF o.err = NoError THEN "returned" ELSE "thrown"
    /\ value' = o.val
    /\ err' = o.err
    /\ UNCHANGED <<result, computed, inputs, concvars>>

CallWorkRestRatio ==
    DirectThrowing("calculateWorkRestRatio",
                   calculateWorkRestRatio(durations, restDurations))

CallConsistencyScore ==
    Direct("calculateConsistencyScore",
           calculateConsistencyScore(durations, intensities))

CallTrainingDensityScore ==
    \E oob \in OobBytes :
        Direct("calculateTrainingDensityScore",
               calculateTrainingDensityScore(durations, intensities, oob))

\* the caller has taken the result or caught the exception
Finish ==
    /\ pc \in {"returned", "thrown"}
    /\ op' = "none"
    /\ pc' = "idle"
    /\ result' = BlankResult
    /\ computed' = {}
    /\ value' = Zero
    /\ err' = NoError
    /\ UNCHANGED <<inputs, concvars>>

Next ==
    \/ CallAnalyze
    \/ Validate
    \/ SetTotalActiveTime
    \/ SetWorkRestRatio
    \/ SetConsistencyScore
    \/ SetTrainingDensityScore
    \/ SetTotalSets
    \/ SetAverageIntensity
    \/ SetTotalWorkVolume
    \/ ReturnResult
    \/ CallTotalActiveTime
    \/ CallWorkRestRatio
    \/ CallConsistencyScore
    \/ CallTrainingDensityScore
    \/ Finish

Spec == Init /\ [][Next]_vars

\* ----------------------------------------- concurrent callers (SpecConc)
InitConc ==
    /\ durations = <<>>
    /\ intensities = <<>>
    /\ restDurations = <<>>
    /\ SeqIdle
    /\ ConcIdle

\* caller t enters analyze with the arguments a
ConcCallAnalyze(t, a) ==
    /\ cpc[t] = "idle"
    /\ cargs' = [cargs EXCEPT ![t] = a]
    /\ cop' = [cop EXCEPT ![t] = "analyze"]
    /\ cpc' = [cpc EXCEPT ![t] = "validate"]
    /\ cresult' = [cresult EXCEPT ![ResultSlot(t)] = BlankResult]
    /\ UNCHANGED <<cret, cerr, inputs, seqvars>>

\* caller t's analyze call takes the step s
ConcTakes(t, s) ==
    /\ cpc' = [cpc EXCEPT ![t] = s.pc]
    /\ cresult' = [cresult EXCEPT ![ResultSlot(t)] = s.result]
    /\ cerr' = [cerr EXCEPT ![t] = s.err]
    /\ cret' = IF s.pc = "returned" THEN [cret EXCEPT ![t].result = s.result]
               ELSE cret

\* caller t executes the next statement of its analyze call
ConcAnalyzeStep(t) ==
    /\ cop[t] = "analyze"
    /\ cpc[t] \notin {"idle", "returned", "thrown"}
    /\ ConcTakes(t, AnalyzeStep(cpc[t], cargs[t][1], cargs[t][2], cargs[t][3],
                                cresult[ResultSlot(t)]))
    /\ UNCHANGED <<cargs, cop, inputs, seqvars>>

\* the outcome [err, val] of a calculate* operation
DirectOutcome(o, a, oob) ==
    CASE o = "calculateTotalActiveTime" -> Returns(calculateTotalActiveTime(a[1]))
      [] o = "calculateWorkRestRatio" -> calculateWorkRestRatio(a[1], a[3])
      [] o = "calculateConsistencyScore" ->
            Returns(calculateConsistencyScore(a[1], a[2]))
      [] o = "calculateTrainingDensityScore" ->
            Returns(calculateTrainingDensityScore(a[1], a[2], oob))

\* caller t's calculate* call ends with the outcome r
ConcEnds(t, r) ==
    /\ cpc' = [cpc EXCEPT ![t] = IF r.err = NoError THEN "returned" ELSE "thrown"]
    /\ cret' = [cret EXCEPT ![t].value = r.val]
    /\ cerr' = [cerr EXCEPT ![t] = r.err]

\* caller t calls the calculate* operation o with the arguments a
ConcCallDirect(t, o, a) ==
    /\ cpc[t] = "idle"
    /\ \E oob \in OobBytes : ConcEnds(t, DirectOutcome(o, a, oob))
    /\ cargs' = [cargs EXCEPT ![t] = a]
    /\ cop' = [cop EXCEPT ![t] = o]
    /\ UNCHANGED <<cresult, inputs, seqvars>>

\* caller t has taken the result or caught the exception; the local of its
\* analyze call is gone
ConcFinish(t) ==
    /\ cpc[t] \in {"returned", "thrown"}
    /\ cpc' = [cpc EXCEPT ![t] = "idle"]
    /\ cop' = [cop EXCEPT ![t] = "none"]
    /\ cargs' = [cargs EXCEPT ![t] = << <<>>, <<>>, <<>> >>]
    /\ cret' = [cret EXCEPT ![t] = [result |-> BlankResult, value |-> Zero]]
    /\ cerr' = [cerr EXCEPT ![t] = NoError]
    /\ cresult' = IF cop[t] = "analyze"
                  THEN [cresult EXCEPT ![ResultSlot(t)] = BlankResult]
                  ELSE cresult
    /\ UNCHANGED <<inputs, seqvars>>

NextConc ==
    \/ \E t \in Threads, a \in Sessions : ConcCallAnalyze(t, a)
    \/ \E t \in Threads, o \in Operations \ {"analyze"}, a \in Sessions :
          ConcCallDirect(t, o, a)
    \/ \E t \in Threads : ConcAnalyzeStep(t)
    \/ \E t \in Threads : ConcFinish(t)

SpecConc == InitConc /\ [][NextConc]_vars

\* ============================================================== properties
\* reference arithmetic on the integral sample values
RECURSIVE SumInts(_)
SumInts(s) == IF s = <<>> THEN 0 ELSE s[1] + SumInts(Tail(s))

RECURSIVE SumProducts(_, _)
SumProducts(s, w) ==
    IF s = <<>> THEN 0 ELSE s[1] * w[1] + SumProducts(Tail(s), Tail(w))

BadDurations == {k \in DOMAIN durations : durations[k] < 0 \/ durations[k] > 86400}
BadIntensities == {k \in DOMAIN intensities : intensities[k] < 1 \/ intensities[k] > 5}
Least(S) == CHOOSE k \in S : \A j \in S : k <= j

ValidInput ==
    /\ Len(durations) = Len(intensities)
    /\ BadDurations = {}
    /\ BadIntensities = {}

InUnitInterval(x) == IsFinite(x) /\ Le(Zero, x) /\ Le(x, One)

Ended == pc \in {"returned", "thrown"}

\* C1: analyze fails with the size-mismatch error whenever durations and
\* intensities differ in length, whatever the three sequences hold, and
\* returns no result: the call never gets past validation.
AnalyzeSizeMismatchFails ==
    (op = "analyze" /\ Len(durations) # Len(intensities)) =>
        /\ pc \in {"validate", "thrown"}
        /\ pc = "thrown" =>
              /\ err = SizeMismatch("durations/intensities")
              /\ computed = {}
              /\ result = BlankResult

\* the size mismatch wins over an out-of-range duration and a restDurations
\* of unsupported length
AnalyzeSizeMismatchWitness ==
    /\ op = "analyze"
    /\ pc = "thrown"
    /\ err.type = "SizeMismatchError"
    /\ Len(durations) # Len(intensities)
    /\ BadDurations # {}
    /\ Len(restDurations) > Len(durations)

ScoresInUnitInterval ==
    ValidInput =>
        /\ (pc = "returned" /\ op \in {"calculateConsistencyScore",
                                       "calculateTrainingDensityScore"})
              => InUnitInterval(value)
        /\ (op = "analyze" /\ "consistencyScore" \in computed)
              => InUnitInterval(result.consistencyScore)
        /\ (op = "analyze" /\ "trainingDensityScore" \in computed)
              => InUnitInterval(result.trainingDensityScore)

\* a valid single set of 86400 seconds at top intensity: the volume is 24
\* times the reference ceiling and the score stays below 1
ScoresWitness ==
    /\ op = "analyze"
    /\ pc = "returned"
    /\ ValidInput
    /\ durations = <<MAX_DURATION>>
    /\ intensities = <<MAX_INTENSITY>>
    /\ Lt(Zero, result.trainingDensityScore)
    /\ Lt(result.trainingDensityScore, One)

\* C4: analyze on empty durations and intensities does not fail and returns
\* totalSets = 0 with every other metric equal to zero.
EmptyAnalyzeAllZero ==
    (op = "analyze" /\ durations = <<>> /\ intensities = <<>>) =>
        /\ pc # "thrown"
        /\ pc = "returned" => result = BlankResult

\* C5 (as stated): calculateWorkRestRatio with non-empty durations and no
\* rest durations returns 1.0.
WorkRestDefaultIsOne ==
    (op = "calculateWorkRestRatio" /\ Ended
        /\ durations # <<>> /\ restDurations = <<>>) =>
        (pc = "returned" /\ value = One)

\* C5 (amended): calculateWorkRestRatio with non-empty durations and no rest
\* durations returns 1.0 when the durations sum to at least 1e-9 and
\* positive infinity when they sum to less (every duration 0, for instance).
WorkRestDefault ==
    (op = "calculateWorkRestRatio" /\ Ended
        /\ durations # <<>> /\ restDurations = <<>>) =>
        /\ pc = "returned"
        /\ SumInts(durations) > 0 => value = One
        /\ SumInts(durations) <= 0 => value = PosInf

\* two sets of different positive lengths and no rest: ratio 1.0
WorkRestDefaultWitness ==
    /\ op = "calculateWorkRestRatio"
    /\ pc = "returned"
    /\ durations = <<20, 600>>
    /\ restDurations = <<>>
    /\ value = One

\* C6 (as stated): for durations of any length, calculateWorkRestRatio with
\* a non-empty restDurations fails with the size-mismatch error exactly when
\* restDurations.length is neither durations.length nor durations.length - 1.
RestSizeAnyDurations ==
    (op = "calculateWorkRestRatio" /\ Ended /\ restDurations # <<>>) =>
        ((pc = "thrown" /\ err = SizeMismatch("restDurations"))
            <=> Len(restDurations) \notin {Len(durations), Len(durations) - 1})

\* C6 (amended): the same for non-empty durations; with empty durations the
\* call returns 0.0 without failing, whatever restDurations is.
RestSizeNonEmptyDurations ==
    (op = "calculateWorkRestRatio" /\ Ended /\ restDurations # <<>>) =>
        IF durations = <<>>
        THEN pc = "returned" /\ value = Zero
        ELSE (pc = "thrown" /\ err = SizeMismatch("restDurations"))
               <=> Len(restDurations) \notin {Len(durations), Len(durations) - 1}

\* two sets with the one gap between them: accepted
RestSizeWitness ==
    /\ op = "calculateWorkRestRatio"
    /\ pc = "returned"
    /\ Len(durations) = 2
    /\ Len(restDurations) = 1

\* C7: with non-empty durations and a non-empty restDurations of accepted
\* length that sums to zero, calculateWorkRestRatio returns positive
\* infinity, whatever the total work is.
ZeroRestIsInfinite ==
    (op = "calculateWorkRestRatio" /\ Ended
        /\ durations # <<>> /\ restDurations # <<>>
        /\ Len(restDurations) \in {Len(durations), Len(durations) - 1}
        /\ SumInts(restDurations) = 0) =>
        (pc = "returned" /\ value = PosInf)

\* no work and no rest: every duration is 0 and the rest sums to zero
ZeroRestWitness ==
    /\ op = "calculateWorkRestRatio"
    /\ pc = "returned"
    /\ value = PosInf
    /\ durations = <<0, 0>>
    /\ restDurations # <<>>
    /\ SumInts(restDurations) = 0

\* the sum a left-to-right accumulation in double arithmetic gives
RECURSIVE DoubleSum(_)
DoubleSum(s) ==
    IF s = <<>> THEN Zero
    ELSE Add(DoubleSum(SubSeq(s, 1, Len(s) - 1)), FromInt(s[Len(s)]))

RECURSIVE DoubleSumProducts(_, _)
DoubleSumProducts(s, w) ==
    IF s = <<>> THEN Zero
    ELSE Add(DoubleSumProducts(SubSeq(s, 1, Len(s) - 1), w),
             Mul(FromInt(s[Len(s)]), FromInt(w[Len(s)])))

\* C8 as stated: for every valid non-empty input analyze returns totalSets =
\* number of sets, totalActiveTime = sum of durations, totalWorkVolume = sum
\* of duration * intensity and averageIntensity = sum(intensities) / length,
\* so that 1 <= averageIntensity <= 5 and
\* totalActiveTime <= totalWorkVolume <= 5 * totalActiveTime.
AnalyzeBasicMetrics ==
    (op = "analyze" /\ pc = "returned" /\ ValidInput /\ durations # <<>>) =>
        /\ result.totalSets = Len(durations)
        /\ result.totalActiveTime = FromInt(SumInts(durations))
        /\ result.totalWorkVolume = FromInt(SumProducts(durations, intensities))
        /\ result.averageIntensity = Norm(SumInts(intensities), Len(intensities))
        /\ Le(One, result.averageIntensity)
        /\ Le(result.averageIntensity, FromInt(5))
        /\ Le(result.totalActiveTime, result.totalWorkVolume)
        /\ Le(result.totalWorkVolume, Mul(FromInt(5), result.totalActiveTime))

\* C8 amended: for every valid non-empty input analyze returns totalSets =
\* number of sets, totalActiveTime = the sum of the durations and
\* totalWorkVolume = the sum of duration * intensity, both as accumulated in
\* double arithmetic in input order, and averageIntensity =
\* sum(intensities) / length, so that 1 <= averageIntensity <= 5 and
\* totalActiveTime <= totalWorkVolume; totalWorkVolume <= 5 * totalActiveTime
\* holds when both sums are exact, and rounding can break it otherwise.
AnalyzeBasicMetricsRounded ==
    (op = "analyze" /\ pc = "returned" /\ ValidInput /\ durations # <<>>) =>
        /\ result.totalSets = Len(durations)
        /\ result.totalActiveTime = DoubleSum(durations)
        /\ result.totalWorkVolume = DoubleSumProducts(durations, intensities)
        /\ result.averageIntensity = Norm(SumInts(intensities), Len(intensities))
        /\ Le(One, result.averageIntensity)
        /\ Le(result.averageIntensity, FromInt(5))
        /\ Le(result.totalActiveTime, result.totalWorkVolume)
        /\ (/\ result.totalActiveTime = FromInt(SumInts(durations))
            /\ result.totalWorkVolume = FromInt(SumProducts(durations, intensities)))
             => Le(result.totalWorkVolume, Mul(FromInt(5), result.totalActiveTime))

\* two sets of different lengths and intensities
AnalyzeBasicMetricsWitness ==
    /\ op = "analyze"
    /\ pc = "returned"
    /\ ValidInput
    /\ durations = <<20, 600>>
    /\ intensities = <<5, 1>>
    /\ result.totalWorkVolume = FromInt(700)

\* the outcome of analyze run alone from position p on the arguments a
RECURSIVE RunAnalyze(_, _, _)
RunFrom(s, a) ==
    IF s.pc = "returned" THEN [err |-> NoError, result |-> s.result]
    ELSE IF s.pc = "thrown" THEN [err |-> s.err, result |-> BlankResult]
    ELSE RunAnalyze(s.pc, a, s.result)

RunAnalyze(p, a, res) == RunFrom(AnalyzeStep(p, a[1], a[2], a[3], res), a)

\* caller t holds the outcome o of an analyze call
HoldsAnalyzeOutcome(t, o) ==
    /\ cpc[t] = "returned" => (o.err = NoError /\ cret[t].result = o.result)
    /\ cpc[t] = "thrown" => (o.err # NoError /\ cerr[t] = o.err)

\* caller t holds the outcome o of a calculate* call
HoldsDirectOutcome(t, o) ==
    /\ cpc[t] = "returned" => (o.err = NoError /\ cret[t].value = o.val)
    /\ cpc[t] = "thrown" => (o.err # NoError /\ cerr[t] = o.err)

\* what caller t got is what its call gives when run alone on its arguments
OutcomeFromOwnArguments(t) ==
    IF cop[t] = "analyze"
    THEN HoldsAnalyzeOutcome(t, RunAnalyze("validate", cargs[t], BlankResult))
    ELSE \E oob \in OobBytes :
            HoldsDirectOutcome(t, DirectOutcome(cop[t], cargs[t], oob))

\* a step leaves the arguments of every call still in progress as they were, and
\* the locals of every caller that did not take the step
CallsLeaveOthersAlone ==
    \A t \in Threads :
        /\ (cpc[t] # "idle" /\ cpc'[t] # "idle") => cargs'[t] = cargs[t]
        /\ (cpc'[t] = cpc[t]) =>
              (cresult'[t] = cresult[t] /\ cret'[t] = cret[t] /\ cerr'[t] = cerr[t])

AnalyzeFailsBeforeAnyMetric ==
    (op = "analyze" /\ pc = "thrown") => computed = {}

\* C11: calculateConsistencyScore returns exactly 1.0 for every input with
\* fewer than 2 sets, and for every valid input of 2 or more sets whose
\* durations are all equal and whose intensities are all equal, every
\* duration being 0 included.
ConsistencyIsOneWithoutVariation ==
    (/\ op = "calculateConsistencyScore"
     /\ pc = "returned"
     /\ \/ Len(durations) < 2
        \/ /\ ValidInput
           /\ \A j, k \in DOMAIN durations :
                  durations[j] = durations[k] /\ intensities[j] = intensities[k])
        => value = One

====
